---- MODULE Spec2Model ----
(***************************************************************************)
(* gh-show-actions-log: the run-polling loop, the summary renderer and the *)
(* failure-log aggregator of src/gh-show-actions-log.ts, as a state        *)
(* machine.  The gh / git commands are the environment: every execSync     *)
(* call is a nondeterministic choice of an exit status and a stdout.       *)
(* gh prints one JSON object per line under --jq, so parseJsonLines is     *)
(* total on the outputs modelled here.  Colours and durations are left out *)
(* of the output events.                                                   *)
(***************************************************************************)
EXTENDS Integers, Sequences, FiniteSets, TLC

VARIABLES
  pc,          \* position: start, poll, pollEnd, pollRet, fetch, run, job, exited
  args,        \* process.argv.slice(2): [repo, sha, workflow]
  deps,        \* the machine: [gh: gh is installed, auth: gh is authenticated]
  repo,        \* main's `repo`
  commitSha,   \* main's `commitSha`
  elapsed,     \* processRunningRuns' `elapsed`
  polls,       \* run-list queries issued by the current processRunningRuns call
  sleeps,      \* Util.sleep calls made by the current processRunningRuns call
  polled,      \* the answer to listAllRuns on which the loop broke; NoAnswer otherwise
  firstEmpty,  \* the first run-list query of the process returned zero runs
  queried,     \* some run-list query has been issued
  fetched,     \* what main's listAllRuns call (line 226) got: [ok, runs]
  allRuns,     \* main's `allRuns`
  failedRuns,  \* main's `failedRuns`
  runIdx,      \* processFailedRuns: index of the run being processed
  jobs,        \* processFailedRuns: `jobs` of the run being processed
  jobIdx,      \* processFailedRuns: index of the job being processed
  out,         \* everything written to stdout / stderr, in order
  queries,     \* the job and log queries issued, in order, with their answers
  exitCode     \* the process's exit code; -1 while it runs

vars == <<pc, args, deps, repo, commitSha, elapsed, polls, sleeps, polled,
          firstEmpty, queried, fetched, allRuns, failedRuns, runIdx, jobs,
          jobIdx, out, queries, exitCode>>

----------------------------------------------------------------------------
(* Program constants *)

LIMIT == 1        \* passed to `gh run list --limit`; the program reads it nowhere else
TIMEOUT == 1200
INTERVAL == 10

(* Bounds of the model *)

MaxRuns == 2      \* runs in one answer of `gh run list`
MaxJobs == 2      \* failed jobs in one answer of `gh run view --json jobs`

----------------------------------------------------------------------------
(* Strings of characters, for the commit SHA *)

Rep(c, n) == [i \in 1..n |-> c]

HexChars == {"0", "1", "2", "3", "4", "5", "6", "7", "8", "9",
             "a", "b", "c", "d", "e", "f", "A", "B", "C", "D", "E", "F"}

\* commit arguments: 6 characters, 7 with an upper-case digit, 41, and a
\* non-hexadecimal one; a 40-character SHA is what `git rev-parse` answers
ShaArgs == {Rep("a", 6), Rep("a", 6) \o <<"F">>, Rep("a", 41),
            Rep("a", 6) \o <<"g">>}

WorkflowArgs == {"", "ci"}

\* the arguments are positional words: none, [repo], [repo sha] or
\* [repo sha workflow]; an absent argument reads as "" (<<>> for the SHA)
CommandLines ==
  {[repo |-> "", sha |-> <<>>, workflow |-> ""],
   [repo |-> "owner/repo", sha |-> <<>>, workflow |-> ""]} \cup
  {[repo |-> "owner/repo", sha |-> s, workflow |-> w] :
     s \in ShaArgs, w \in WorkflowArgs}

----------------------------------------------------------------------------
(* Util.execCommand: the command's exit status and stdout, as a result *)

RawOk(s) == [exit |-> 0, stdout |-> s]
RawFail == [exit |-> 1, stdout |-> ""]

execCommand(raw, ignoreError) ==
  IF raw.exit = 0 THEN [ok |-> TRUE, result |-> raw.stdout, code |-> 0]
  ELSE IF ignoreError THEN [ok |-> TRUE, result |-> "", code |-> 0]
  ELSE [ok |-> FALSE, result |-> "", code |-> raw.exit]

(* Util.validateSha: /^[a-f0-9]{7,40}$/i *)
validateSha(sha) ==
  IF sha = <<>> THEN FALSE
  ELSE Len(sha) >= 7 /\ Len(sha) <= 40 /\ \A i \in 1..Len(sha) : sha[i] \in HexChars

(* Util.formatStatus *)
formatStatus_completedOnly(status, conclusion) ==
  IF status = "in_progress" THEN "RUNNING"
  ELSE IF status # "completed" THEN "UNKNOWN"
  ELSE CASE conclusion = "success" -> "SUCCESS"
         [] conclusion = "failure" -> "FAILURE"
         [] conclusion = "cancelled" -> "CANCELLED"
         [] conclusion = "skipped" -> "SKIPPED"
         [] OTHER -> "UNKNOWN"

formatStatus(status, conclusion) ==
  IF status = "in_progress" THEN "RUNNING"
  ELSE CASE conclusion = "success" -> "SUCCESS"
         [] conclusion = "failure" -> "FAILURE"
         [] conclusion = "cancelled" -> "CANCELLED"
         [] conclusion = "skipped" -> "SKIPPED"
         [] OTHER -> "UNKNOWN"

----------------------------------------------------------------------------
(* Output events: one per Output.* call, colours dropped *)

Ev(t, id, x) == [t |-> t, id |-> id, x |-> x]

Line_byStatus(run) == Ev("line", run.databaseId, formatStatus(run.status, ""))

Line(run) == Ev("line", run.databaseId, formatStatus(run.status, run.conclusion))

----------------------------------------------------------------------------
(* The environment: what the commands can answer *)

\* (status, conclusion) of a run as `gh run list` reports it: the conclusion
\* is the empty string until the run has completed
RunKinds ==
  {[status |-> "queued", conclusion |-> ""],
   [status |-> "in_progress", conclusion |-> ""]} \cup
  {[status |-> "completed", conclusion |-> c] :
     c \in {"success", "failure", "cancelled", "skipped"}}

\* the workflowName of run i of an answer: the first run belongs to the
\* workflow "ci", the later ones to the workflow "deploy"
WorkflowOf(i) == IF i = 1 THEN "ci" ELSE "deploy"

\* the objects printed by `gh run list ... --jq '.[]'`, one per line; run i of
\* an answer carries databaseId i.  --limit is the remote's business: the
\* program never truncates the answer itself, and processRunningRuns,
\* displayRunSummary and processFailedRuns take arrays of any length, so
\* answers go up to MaxRuns.
Snapshots ==
  UNION {{[i \in 1..n |-> [databaseId |-> i, status |-> k[i].status,
                           conclusion |-> k[i].conclusion,
                           workflowName |-> WorkflowOf(i)]] :
            k \in [1..n -> RunKinds]} : n \in 0..MaxRuns}

RunListAnswers == {RawFail} \cup {RawOk(s) : s \in Snapshots}

JobId(runId, j) == runId * 10 + j

JobAnswers(runId) ==
  {RawFail} \cup
  {RawOk([j \in 1..n |-> [name |-> "job", databaseId |-> JobId(runId, j)]]) :
     n \in 0..MaxJobs}

LogAnswers == {RawFail, RawOk(""), RawOk("log text")}

GhRepoAnswers == {RawFail, RawOk("owner/repo")}

RemoteUrlAnswers == {RawFail, RawOk("git@github.com:owner/repo.git"),
                     RawOk("https://example.com/owner/repo.git")}

GitShaAnswers == {RawFail, RawOk(Rep("b", 40))}

WorkflowAnswers == {RawFail, RawOk(<<>>), RawOk(<<"42">>)}

----------------------------------------------------------------------------
(* GhCli / GitCli wrappers *)

\* Util.parseJsonLines: stdout is modelled as the sequence of the objects its
\* non-blank lines encode; an empty output is the empty array
parseJsonLines(output) == IF Len(output) = 0 THEN <<>> ELSE output

listAllRuns(raw) ==
  LET outputResult == execCommand(raw, FALSE)
  IN IF outputResult.ok THEN parseJsonLines(outputResult.result) ELSE <<>>

getFailedJobsFromRun(raw) ==
  LET outputResult == execCommand(raw, FALSE)
  IN IF outputResult.ok THEN parseJsonLines(outputResult.result) ELSE <<>>

\* JavaScript's null
Null == "<null>"

getJobLogsFromRepo(raw) ==
  LET logsResult == execCommand(raw, FALSE)
  IN IF logsResult.ok THEN logsResult.result ELSE Null

getRepo(raw) == execCommand(raw, TRUE)

\* /github\.com[:\/](.*)\.git/ on the remote URLs of RemoteUrlAnswers
RemoteMatch(url) ==
  IF url = "git@github.com:owner/repo.git" THEN "owner/repo" ELSE ""

Failure == [ok |-> FALSE, result |-> "", code |-> 1]

getRepository(ghRaw, remoteRaw) ==
  LET repoResult == getRepo(ghRaw)
      remoteUrlResult == execCommand(remoteRaw, FALSE)
  IN IF repoResult.ok THEN repoResult
     ELSE IF remoteUrlResult.ok
          THEN IF RemoteMatch(remoteUrlResult.result) # ""
               THEN [ok |-> TRUE, result |-> RemoteMatch(remoteUrlResult.result),
                     code |-> 0]
               ELSE Failure
          ELSE Failure

\* ShowLogAction.checkDependencies: the error it prints, "" when it returns
checkDependencies_noauth(d) ==
  LET ghCheck == execCommand(IF d.gh THEN RawOk("/usr/bin/gh") ELSE RawFail, FALSE)
  IN IF ~ghCheck.ok THEN "gh not installed" ELSE ""

checkDependencies(d) ==
  LET ghCheck == execCommand(IF d.gh THEN RawOk("/usr/bin/gh") ELSE RawFail, FALSE)
      authCheck == execCommand(IF d.auth THEN RawOk("") ELSE RawFail, FALSE)
  IN IF ~ghCheck.ok THEN "gh not installed"
     ELSE IF ~authCheck.ok THEN "not authenticated"
     ELSE ""

----------------------------------------------------------------------------
(* ShowLogAction.main, lines 157-220: arguments, dependencies, heading.     *)
(* The result is either an exit (code 1, with what was printed) or the      *)
(* repo and commitSha that main goes on with.                               *)

Exit1(events) == [exit |-> 1, out |-> events, repo |-> "", sha |-> <<>>]

showUsageAndExit(error) == Exit1(<<Ev("error", 0, error), Ev("usage", 0, "")>>)

workflowId(wfRaw) ==
  LET workflowResult == execCommand(wfRaw, FALSE)
  IN IF workflowResult.ok /\ Len(workflowResult.result) > 0
     THEN workflowResult.result[1] ELSE ""

Prelude(a, d, ghRaw, remoteRaw, shaRaw, wfRaw) ==
  LET repoResult == getRepository(ghRaw, remoteRaw)
      shaResult == execCommand(shaRaw, FALSE)
      repo1 == IF a.repo = "" THEN repoResult.result ELSE a.repo
      sha1 == IF a.sha = <<>> THEN shaResult.result ELSE a.sha
  IN IF a.repo = "" /\ ~repoResult.ok
       THEN showUsageAndExit("Could not determine repository")
     ELSE IF a.repo # "" /\ a.sha = <<>>
       THEN showUsageAndExit("repository without commit SHA")
     ELSE IF a.sha = <<>> /\ ~shaResult.ok
       THEN showUsageAndExit("Could not determine current commit SHA")
     ELSE IF ~validateSha(sha1)
       THEN Exit1(<<Ev("error", 0, "Invalid SHA format")>>)
     ELSE IF checkDependencies(d) # ""
       THEN Exit1(<<Ev("error", 0, checkDependencies(d))>>)
     ELSE IF a.workflow # "" /\ workflowId(wfRaw) = ""
       THEN Exit1(<<Ev("error", 0, "No workflow found")>>)
     ELSE [exit |-> 0, out |-> <<Ev("h1", 0, repo1)>>, repo |-> repo1, sha |-> sha1]

----------------------------------------------------------------------------
(* Initial state: the command line and the machine *)

NoAnswer == [ok |-> FALSE, runs |-> <<>>, none |-> TRUE]
Answer(raw) == [ok |-> raw.exit = 0, runs |-> listAllRuns(raw), none |-> FALSE]

Init ==
  /\ pc = "start"
  /\ args \in CommandLines
  /\ deps \in [gh : BOOLEAN, auth : BOOLEAN]
  /\ repo = ""
  /\ commitSha = <<>>
  /\ elapsed = 0
  /\ polls = 0
  /\ sleeps = 0
  /\ polled = NoAnswer
  /\ firstEmpty = FALSE
  /\ queried = FALSE
  /\ fetched = NoAnswer
  /\ allRuns = <<>>
  /\ failedRuns = <<>>
  /\ runIdx = 0
  /\ jobs = <<>>
  /\ jobIdx = 0
  /\ out = <<>>
  /\ queries = <<>>
  /\ exitCode = -1

----------------------------------------------------------------------------
(* main, lines 157-223 *)

\* a check fails: the error is printed and process.exit(1) is called
MainExit ==
  /\ pc = "start"
  /\ \E ghRaw \in GhRepoAnswers, remoteRaw \in RemoteUrlAnswers,
        shaRaw \in GitShaAnswers, wfRaw \in WorkflowAnswers :
       LET p == Prelude(args, deps, ghRaw, remoteRaw, shaRaw, wfRaw)
       IN /\ p.exit = 1
          /\ out' = out \o p.out
  /\ pc' = "exited"
  /\ exitCode' = 1
  /\ UNCHANGED <<args, deps, repo, commitSha, elapsed, polls, sleeps, polled,
                 firstEmpty, queried, fetched, allRuns, failedRuns, runIdx,
                 jobs, jobIdx, queries>>

\* every check passes: the heading is printed and processRunningRuns entered
MainBegin ==
  /\ pc = "start"
  /\ \E ghRaw \in GhRepoAnswers, remoteRaw \in RemoteUrlAnswers,
        shaRaw \in GitShaAnswers, wfRaw \in WorkflowAnswers :
       LET p == Prelude(args, deps, ghRaw, remoteRaw, shaRaw, wfRaw)
       IN /\ p.exit = 0
          /\ out' = out \o p.out
          /\ repo' = p.repo
          /\ commitSha' = p.sha
  /\ pc' = "poll"
  /\ elapsed' = 0
  /\ UNCHANGED <<args, deps, polls, sleeps, polled, firstEmpty, queried,
                 fetched, allRuns, failedRuns, runIdx, jobs, jobIdx, queries,
                 exitCode>>

----------------------------------------------------------------------------
(* ShowLogAction.processRunningRuns *)

\* the filter of line 89
isRunning(run) == run.status = "in_progress"

\* the loop condition of line 87
LoopCond_inclusive(e) == e <= TIMEOUT

LoopCond(e) == e < TIMEOUT

\* line 97
Advance_stuck(e) == e

Advance(e) == e + INTERVAL

\* the test of line 92, on the answer of line 88
NoneRunning_nonempty(runs) == Len(runs) # 0 /\ Len(SelectSeq(runs, isRunning)) = 0

NoneRunning(runs) == Len(SelectSeq(runs, isRunning)) = 0

\* the test of line 100
TimedOut_never(e) == e > TIMEOUT

TimedOut(e) == e >= TIMEOUT

\* an iteration that finds no running run: break
PollBreak ==
  /\ pc = "poll"
  /\ LoopCond(elapsed)
  /\ \E raw \in RunListAnswers :
       /\ NoneRunning(listAllRuns(raw))
       /\ polled' = Answer(raw)
       /\ firstEmpty' = IF queried THEN firstEmpty ELSE listAllRuns(raw) = <<>>
  /\ polls' = polls + 1
  /\ queried' = TRUE
  /\ pc' = "pollEnd"
  /\ UNCHANGED <<args, deps, repo, commitSha, elapsed, sleeps, fetched, allRuns,
                 failedRuns, runIdx, jobs, jobIdx, out, queries, exitCode>>

\* an iteration that finds a running run: sleep, then count the interval
PollWait ==
  /\ pc = "poll"
  /\ LoopCond(elapsed)
  /\ \E raw \in RunListAnswers :
       /\ ~NoneRunning(listAllRuns(raw))
       /\ firstEmpty' = IF queried THEN firstEmpty ELSE listAllRuns(raw) = <<>>
  /\ polls' = polls + 1
  /\ queried' = TRUE
  /\ sleeps' = sleeps + 1
  /\ elapsed' = Advance(elapsed)
  /\ UNCHANGED <<pc, args, deps, repo, commitSha, polled, fetched,
                 allRuns, failedRuns, runIdx, jobs, jobIdx, out, queries,
                 exitCode>>

\* the loop condition fails
PollExhausted ==
  /\ pc = "poll"
  /\ ~LoopCond(elapsed)
  /\ pc' = "pollEnd"
  /\ UNCHANGED <<args, deps, repo, commitSha, elapsed, polls, sleeps, polled,
                 firstEmpty, queried, fetched, allRuns, failedRuns, runIdx,
                 jobs, jobIdx, out, queries, exitCode>>

\* lines 100-102
TimeoutCheck ==
  /\ pc = "pollEnd"
  /\ out' = IF TimedOut(elapsed)
            THEN Append(out, Ev("warning", 0, "Timeout reached"))
            ELSE out
  /\ pc' = "pollRet"
  /\ UNCHANGED <<args, deps, repo, commitSha, elapsed, polls, sleeps, polled,
                 firstEmpty, queried, fetched, allRuns, failedRuns, runIdx, jobs,
                 jobIdx, queries, exitCode>>

\* line 103: the return to main; processRunningRuns' locals are gone
PollReturn ==
  /\ pc = "pollRet"
  /\ pc' = "fetch"
  /\ elapsed' = 0
  /\ polls' = 0
  /\ sleeps' = 0
  /\ polled' = NoAnswer
  /\ UNCHANGED <<args, deps, repo, commitSha, firstEmpty, queried, fetched,
                 allRuns, failedRuns, runIdx, jobs, jobIdx, out, queries,
                 exitCode>>

----------------------------------------------------------------------------
(* ShowLogAction.displayRunSummary: the lines it prints *)

displayRunSummary_reversed(runs) ==
  IF Len(runs) = 0 THEN <<Ev("success", 0, "No workflow runs found")>>
  ELSE [i \in 1..Len(runs) |-> Line(runs[Len(runs) + 1 - i])]

displayRunSummary_tail(runs) ==
  IF Len(runs) = 0 THEN <<Ev("success", 0, "No workflow runs found")>>
  ELSE [i \in 1..(Len(runs) - 1) |-> Line(runs[i + 1])]

displayRunSummary(runs) ==
  IF Len(runs) = 0 THEN <<Ev("success", 0, "No workflow runs found")>>
  ELSE [i \in 1..Len(runs) |-> Line(runs[i])]

\* the filter of line 230
isFailed_notSuccess(run) == run.conclusion # "success"

isFailed(run) == run.conclusion = "failure"

----------------------------------------------------------------------------
(* main, lines 225-238 *)

\* no failed run in the answer: process.exit(0)
FetchNoFailure ==
  /\ pc = "fetch"
  /\ \E raw \in RunListAnswers :
       /\ Len(SelectSeq(listAllRuns(raw), isFailed)) = 0
       /\ fetched' = Answer(raw)
       /\ allRuns' = listAllRuns(raw)
       /\ failedRuns' = SelectSeq(listAllRuns(raw), isFailed)
       /\ out' = out \o displayRunSummary(listAllRuns(raw))
       /\ firstEmpty' = IF queried THEN firstEmpty ELSE listAllRuns(raw) = <<>>
  /\ queried' = TRUE
  /\ pc' = "exited"
  /\ exitCode' = 0
  /\ UNCHANGED <<args, deps, repo, commitSha, elapsed, polls, sleeps, polled,
                 runIdx, jobs, jobIdx, queries>>

\* some failed run: processFailedRuns is entered
FetchFailures ==
  /\ pc = "fetch"
  /\ \E raw \in RunListAnswers :
       /\ Len(SelectSeq(listAllRuns(raw), isFailed)) # 0
       /\ fetched' = Answer(raw)
       /\ allRuns' = listAllRuns(raw)
       /\ failedRuns' = SelectSeq(listAllRuns(raw), isFailed)
       /\ out' = out \o displayRunSummary(listAllRuns(raw))
       /\ firstEmpty' = IF queried THEN firstEmpty ELSE listAllRuns(raw) = <<>>
  /\ queried' = TRUE
  /\ pc' = "run"
  /\ runIdx' = 1
  /\ UNCHANGED <<args, deps, repo, commitSha, elapsed, polls, sleeps, polled,
                 jobs, jobIdx, queries, exitCode>>

----------------------------------------------------------------------------
(* ShowLogAction.processFailedRuns *)

Query(q, id, ok, n, x) == [q |-> q, id |-> id, ok |-> ok, n |-> n, x |-> x]

\* the exit code of a process whose main() returns: nothing sets
\* process.exitCode, so node exits with 0
ReturnCode == 0

\* the end of one iteration of the loop over failedRuns
NextRun ==
  IF runIdx < Len(failedRuns)
  THEN /\ pc' = "run"
       /\ runIdx' = runIdx + 1
       /\ exitCode' = exitCode
  ELSE /\ pc' = "exited"
       /\ runIdx' = runIdx
       /\ exitCode' = ReturnCode

\* lines 125-136: the run's heading, its failed jobs; none: warn and continue
RunWithoutJobs ==
  /\ pc = "run"
  /\ LET run == failedRuns[runIdx]
     IN \E raw \in JobAnswers(run.databaseId) :
          /\ Len(getFailedJobsFromRun(raw)) = 0
          /\ queries' = Append(queries, Query("jobs", run.databaseId, raw.exit = 0, 0, ""))
          /\ out' = out \o <<Ev("h2", run.databaseId, "Failed run"),
                             Ev("warning", run.databaseId, "No failed jobs found")>>
  /\ jobs' = <<>>
  /\ NextRun
  /\ UNCHANGED <<args, deps, repo, commitSha, elapsed, polls, sleeps, polled,
                 firstEmpty, queried, fetched, allRuns, failedRuns, jobIdx>>

\* lines 125-130 and 138: the run's heading, its failed jobs; some: enter the loop
RunWithJobs ==
  /\ pc = "run"
  /\ LET run == failedRuns[runIdx]
     IN \E raw \in JobAnswers(run.databaseId) :
          /\ Len(getFailedJobsFromRun(raw)) # 0
          /\ jobs' = getFailedJobsFromRun(raw)
          /\ queries' = Append(queries, Query("jobs", run.databaseId, raw.exit = 0,
                                              Len(getFailedJobsFromRun(raw)), ""))
          /\ out' = Append(out, Ev("h2", run.databaseId, "Failed run"))
  /\ pc' = "job"
  /\ jobIdx' = 1
  /\ UNCHANGED <<args, deps, repo, commitSha, elapsed, polls, sleeps, polled,
                 firstEmpty, queried, fetched, allRuns, failedRuns, runIdx,
                 exitCode>>

\* line 143: JavaScript's truthiness of `logs`
Truthy(logs) == logs # Null /\ logs # ""

\* lines 139-150: what one job prints, given what getJobLogsFromRepo returned
JobBlock_open(job, logs) ==
  <<Ev("h3", job.databaseId, "Failed Job"), Ev("fence", job.databaseId, "")>>
  \o (IF Truthy(logs)
      THEN <<Ev("log", job.databaseId, logs), Ev("fence", job.databaseId, "")>>
      ELSE <<Ev("warning", job.databaseId, "Could not fetch logs")>>)

JobBlock(job, logs) ==
  <<Ev("h3", job.databaseId, "Failed Job"), Ev("fence", job.databaseId, "")>>
  \o (IF Truthy(logs)
      THEN <<Ev("log", job.databaseId, logs)>>
      ELSE <<Ev("warning", job.databaseId, "Could not fetch logs")>>)
  \o <<Ev("fence", job.databaseId, "")>>

\* whether the loop over jobs goes on after job j of n, whose log was `logs`
MoreJobs_abort(j, n, logs) == j < n /\ Truthy(logs)

MoreJobs(j, n, logs) == j < n

\* one iteration of the loop over jobs, not the last one
JobStep ==
  /\ pc = "job"
  /\ LET job == jobs[jobIdx]
     IN \E raw \in LogAnswers :
          /\ MoreJobs(jobIdx, Len(jobs), getJobLogsFromRepo(raw))
          /\ queries' = Append(queries, Query("log", job.databaseId, raw.exit = 0, 0,
                                              raw.stdout))
          /\ out' = out \o JobBlock(job, getJobLogsFromRepo(raw))
  /\ jobIdx' = jobIdx + 1
  /\ UNCHANGED <<pc, args, deps, repo, commitSha, elapsed, polls, sleeps, polled,
                 firstEmpty, queried, fetched, allRuns, failedRuns, runIdx, jobs,
                 exitCode>>

\* line 153: what closes the section of a run that had failed jobs
RunFooter_none(run) == <<>>

RunFooter(run) == <<Ev("warning", run.databaseId, "Workflow run failed")>>

\* the last iteration of the loop over jobs, and line 153
JobLast ==
  /\ pc = "job"
  /\ LET job == jobs[jobIdx]
         run == failedRuns[runIdx]
     IN \E raw \in LogAnswers :
          /\ ~MoreJobs(jobIdx, Len(jobs), getJobLogsFromRepo(raw))
          /\ queries' = Append(queries, Query("log", job.databaseId, raw.exit = 0, 0,
                                              raw.stdout))
          /\ out' = (out \o JobBlock(job, getJobLogsFromRepo(raw)))
                    \o RunFooter(run)
  /\ NextRun
  /\ UNCHANGED <<args, deps, repo, commitSha, elapsed, polls, sleeps, polled,
                 firstEmpty, queried, fetched, allRuns, failedRuns, jobs, jobIdx>>

----------------------------------------------------------------------------

Next ==
  \/ MainExit
  \/ MainBegin
  \/ PollBreak
  \/ PollWait
  \/ PollExhausted
  \/ TimeoutCheck
  \/ PollReturn
  \/ FetchNoFailure
  \/ FetchFailures
  \/ RunWithoutJobs
  \/ RunWithJobs
  \/ JobStep
  \/ JobLast

Spec == Init /\ [][Next]_vars

----------------------------------------------------------------------------
(* The poll loop on its own: processRunningRuns from its entry (line 85) to  *)
(* its return, for the command line `owner/repo aaaaaaF`.                    *)

PollInit ==
  /\ pc = "poll"
  /\ args = [repo |-> "owner/repo", sha |-> Rep("a", 6) \o <<"F">>, workflow |-> ""]
  /\ deps = [gh |-> TRUE, auth |-> TRUE]
  /\ repo = "owner/repo"
  /\ commitSha = Rep("a", 6) \o <<"F">>
  /\ elapsed = 0
  /\ polls = 0
  /\ sleeps = 0
  /\ polled = NoAnswer
  /\ firstEmpty = FALSE
  /\ queried = FALSE
  /\ fetched = NoAnswer
  /\ allRuns = <<>>
  /\ failedRuns = <<>>
  /\ runIdx = 0
  /\ jobs = <<>>
  /\ jobIdx = 0
  /\ out = <<Ev("h1", 0, "owner/repo")>>
  /\ queries = <<>>
  /\ exitCode = -1

PollNext ==
  \/ PollBreak
  \/ PollWait
  \/ PollExhausted
  \/ TimeoutCheck
  \/ PollReturn

\* the loop body only sleeps for INTERVAL seconds, and the timer fires
PollSpec == PollInit /\ [][PollNext]_vars /\ WF_vars(PollNext)

----------------------------------------------------------------------------
(* The summary and the failure logs on their own: main from its listAllRuns *)
(* call (line 226) to the end of the process, for the command line          *)
(* `owner/repo aaaaaaF` after a poll loop that broke at once.               *)

AggInit ==
  /\ pc = "fetch"
  /\ args = [repo |-> "owner/repo", sha |-> Rep("a", 6) \o <<"F">>, workflow |-> ""]
  /\ deps = [gh |-> TRUE, auth |-> TRUE]
  /\ repo = "owner/repo"
  /\ commitSha = Rep("a", 6) \o <<"F">>
  /\ elapsed = 0
  /\ polls = 0
  /\ sleeps = 0
  /\ polled = NoAnswer
  /\ firstEmpty = FALSE
  /\ queried = TRUE
  /\ fetched = NoAnswer
  /\ allRuns = <<>>
  /\ failedRuns = <<>>
  /\ runIdx = 0
  /\ jobs = <<>>
  /\ jobIdx = 0
  /\ out = <<Ev("h1", 0, "owner/repo")>>
  /\ queries = <<>>
  /\ exitCode = -1

AggNext ==
  \/ FetchNoFailure
  \/ FetchFailures
  \/ RunWithoutJobs
  \/ RunWithJobs
  \/ JobStep
  \/ JobLast

AggSpec == AggInit /\ [][AggNext]_vars

----------------------------------------------------------------------------
(* Util.formatStatus on its own: displayRunSummary (lines 105-118) is given *)
(* one run with any status and any conclusion, and prints its line.         *)

\* the values of a run's `status` and `conclusion` in GitHub's API, and the
\* empty string of a field that is not set
Statuses == {"", "queued", "in_progress", "completed", "waiting", "requested",
             "pending"}

Conclusions == {"", "success", "failure", "cancelled", "skipped", "timed_out",
                "neutral", "action_required"}

FormatInit ==
  /\ pc = "format"
  /\ args = [repo |-> "owner/repo", sha |-> Rep("a", 6) \o <<"F">>, workflow |-> ""]
  /\ deps = [gh |-> TRUE, auth |-> TRUE]
  /\ repo = "owner/repo"
  /\ commitSha = Rep("a", 6) \o <<"F">>
  /\ elapsed = 0
  /\ polls = 0
  /\ sleeps = 0
  /\ polled = NoAnswer
  /\ firstEmpty = FALSE
  /\ queried = TRUE
  /\ fetched = NoAnswer
  /\ \E s \in Statuses, c \in Conclusions :
       allRuns = <<[databaseId |-> 1, status |-> s, conclusion |-> c,
                    workflowName |-> WorkflowOf(1)]>>
  /\ failedRuns = <<>>
  /\ runIdx = 0
  /\ jobs = <<>>
  /\ jobIdx = 0
  /\ out = <<>>
  /\ queries = <<>>
  /\ exitCode = -1

Format ==
  /\ pc = "format"
  /\ out' = displayRunSummary(allRuns)
  /\ pc' = "formatted"
  /\ UNCHANGED <<args, deps, repo, commitSha, elapsed, polls, sleeps, polled,
                 firstEmpty, queried, fetched, allRuns, failedRuns, runIdx, jobs,
                 jobIdx, queries, exitCode>>

FormatSpec == FormatInit /\ [][Format]_vars

----------------------------------------------------------------------------
(* Vocabulary of the properties *)

Has(o, e) == \E i \in 1..Len(o) : o[i] = e

Warned(o) == Has(o, Ev("warning", 0, "Timeout reached"))

NoRunsMessage == Ev("success", 0, "No workflow runs found")

\* what the summary renderer has printed
IsRendered(e) == e.t = "line" \/ e.t = "success"
Rendered(o) == SelectSeq(o, IsRendered)

HasFailure(runs) == \E i \in 1..Len(runs) : runs[i].conclusion = "failure"

LoopOver == pc \in {"pollEnd", "pollRet"}

Run(id, status, conclusion) ==
  [databaseId |-> id, status |-> status, conclusion |-> conclusion,
   workflowName |-> WorkflowOf(id)]

----------------------------------------------------------------------------
(* C1: once the checks are passed, the process exits with 64 when the final *)
(* snapshot holds a failed run, and with 0 when it holds none.              *)
C1_ExitCodeReflectsOutcome ==
  (pc = "exited" /\ ~fetched.none) =>
     exitCode = (IF HasFailure(fetched.runs) THEN 64 ELSE 0)

(* C2: before the ceiling, the poll loop is left only on a snapshot with no *)
(* queued and no in_progress run.                                           *)
C2_WaitsWhileQueuedOrRunning ==
  (LoopOver /\ elapsed < TIMEOUT) =>
     \A i \in 1..Len(polled.runs) :
        polled.runs[i].status \notin {"queued", "in_progress"}

(* C3: the poll loop ends, whatever the queries answer: it never sleeps     *)
(* more than TIMEOUT + INTERVAL in all, elapsed is the time slept, it has   *)
(* issued a run query when it ends, and it does end.                        *)
C3_PollLoopTerminates ==
  /\ [](sleeps * INTERVAL <= TIMEOUT + INTERVAL)
  /\ [](pc \in {"poll", "pollEnd", "pollRet"} => elapsed = sleeps * INTERVAL)
  /\ [](LoopOver => polls >= 1)
  /\ (pc = "poll") ~> (pc = "pollRet")

C3_Witness ==
  pc = "pollEnd" /\ sleeps * INTERVAL = TIMEOUT /\ polls = TIMEOUT \div INTERVAL

(* C4, as stated: when the first run query returns zero runs, one delay has *)
(* been slept by the time the loop is over.                                 *)
C4_RetryAfterDelay ==
  (LoopOver /\ firstEmpty) => sleeps = 1

(* C4, amended: when the first run query returns zero runs, the loop ends   *)
(* on it without sleeping, main issues its one query and no other follows;  *)
(* what that query returns is summarised: one completed/success run gives   *)
(* one SUCCESS line, no "no runs" message and exit code 0.                  *)
C4_RequeryWithoutDelay ==
  /\ (firstEmpty /\ LoopOver) =>
        /\ polls = 1 /\ sleeps = 0 /\ elapsed = 0
        /\ ~polled.none /\ polled.runs = <<>>
  /\ (firstEmpty /\ pc = "fetch") => fetched.none /\ Rendered(out) = <<>>
  /\ (firstEmpty /\ ~fetched.none) =>
        /\ pc \in {"run", "job", "exited"}
        /\ ~Warned(out)
        /\ fetched.runs # <<>> =>
             /\ ~Has(out, NoRunsMessage)
             /\ Len(Rendered(out)) = Len(fetched.runs)
        /\ fetched.runs = <<Run(1, "completed", "success")>> =>
             /\ pc = "exited" /\ exitCode = 0
             /\ Rendered(out) = <<Ev("line", 1, "SUCCESS")>>

C4_Witness ==
  /\ firstEmpty /\ pc = "exited" /\ exitCode = 0
  /\ fetched.runs = <<Run(1, "completed", "success")>>

(* C5: "Timeout reached" is printed exactly when the loop ended because     *)
(* elapsed reached TIMEOUT, never on a snapshot without a running run; it   *)
(* is a warning: the runs are then queried and summarised, the failed runs  *)
(* processed, and the exit code is not 1.                                   *)
C5_TimeoutIsWarning ==
  /\ pc \in {"start", "poll", "pollEnd"} => ~Warned(out)
  /\ pc = "pollRet" =>
        /\ Warned(out) <=> (elapsed >= TIMEOUT /\ polled.none)
        /\ ~polled.none =>
             /\ elapsed < TIMEOUT
             /\ \A i \in 1..Len(polled.runs) : polled.runs[i].status # "in_progress"
  /\ (Warned(out) /\ pc = "exited") =>
        /\ ~fetched.none
        /\ Rendered(out) # <<>>
        /\ exitCode # 1
        /\ \A i \in 1..Len(fetched.runs) :
             fetched.runs[i].conclusion = "failure" =>
                Has(out, Ev("h2", fetched.runs[i].databaseId, "Failed run"))

C5_Witness ==
  /\ Warned(out) /\ pc = "exited" /\ failedRuns # <<>>
  /\ \E i \in 1..Len(out) : out[i].t = "log"

(* C6: a failed log fetch aborts nothing: when processFailedRuns is over,   *)
(* every failed run has had its jobs queried, every job returned has had    *)
(* its log queried and its log or its warning printed, and a job whose      *)
(* fetch failed is named in a warning.                                      *)
C6_LogFailureDoesNotAbort ==
  (pc = "exited" /\ failedRuns # <<>>) =>
     LET printed == {out[i] : i \in 1..Len(out)}
     IN \A r \in 1..Len(failedRuns) :
          /\ Ev("h2", failedRuns[r].databaseId, "Failed run") \in printed
          /\ \E k \in 1..Len(queries) :
               /\ queries[k].q = "jobs"
               /\ queries[k].id = failedRuns[r].databaseId
               /\ \A j \in 1..queries[k].n :
                    \E m \in (k + 1)..Len(queries) :
                       /\ queries[m].q = "log"
                       /\ queries[m].id = JobId(failedRuns[r].databaseId, j)
                       /\ \/ Ev("warning", queries[m].id, "Could not fetch logs")
                              \in printed
                          \/ /\ queries[m].ok
                             /\ Ev("log", queries[m].id, queries[m].x) \in printed

\* a log fetch failed, and a later job of that run and a later run followed
C6_Witness ==
  /\ pc = "exited"
  /\ \E m, m2, k \in 1..Len(queries) :
       /\ m < m2 /\ m2 < k
       /\ queries[m].q = "log" /\ ~queries[m].ok
       /\ queries[m2].q = "log" /\ queries[m2].ok /\ queries[m2].x # ""
       /\ queries[m2].id = queries[m].id + 1
       /\ queries[k].q = "jobs"

(* C7: a run-list query that fails is fatal: the process exits with 1 and   *)
(* does not report that no workflow runs were found.                        *)
C7_QueryFailureIsFatal ==
  (pc = "exited" /\ ~fetched.none /\ ~fetched.ok) =>
     exitCode = 1 /\ ~Has(out, NoRunsMessage)

(* C8, as stated: once the first query has shown a running run, a summary   *)
(* of it has been printed before the loop waits.                            *)
C8_SummaryBeforePolling ==
  (pc = "poll" /\ polls >= 1) => Rendered(out) # <<>>

(* C8, amended: the summary is printed once, by main, after the poll loop   *)
(* and main's own query, and it is the summary of that query's snapshot;    *)
(* nothing is summarised before or during polling (in_progress, then        *)
(* completed/failure gives the FAILURE summary only).                       *)
C8_SummaryOfLastSnapshot ==
  LET summary == Rendered(out)
  IN /\ fetched.none => summary = <<>>
     /\ ~fetched.none =>
           /\ allRuns = fetched.runs
           /\ fetched.runs # <<>> =>
                /\ Len(summary) = Len(fetched.runs)
                /\ \A i \in 1..Len(fetched.runs) :
                     summary[i].id = fetched.runs[i].databaseId
           /\ fetched.runs = <<Run(1, "completed", "failure")>> =>
                summary = <<Ev("line", 1, "FAILURE")>>

\* the loop waited to the ceiling, and the last snapshot is a failed run
C8_Witness ==
  /\ Warned(out)
  /\ fetched.runs = <<Run(1, "completed", "failure")>>
  /\ Rendered(out) = <<Ev("line", 1, "FAILURE")>>

(* C9, as stated: the renderer prints one line per run, in order, and       *)
(* nothing for the empty sequence.                                          *)
C9_OneLinePerRun ==
  ~fetched.none =>
     /\ Len(Rendered(out)) = Len(allRuns)
     /\ \A i \in 1..Len(allRuns) :
          Rendered(out)[i] = Ev("line", allRuns[i].databaseId, Rendered(out)[i].x)

(* C9, amended: for a non-empty sequence the renderer prints one line per   *)
(* run, in order; for the empty sequence it prints the one message          *)
(* "No workflow runs found".                                                *)
C9_OneLinePerRunOrNoRuns ==
  LET lines == Rendered(out)
  IN ~fetched.none =>
       IF allRuns = <<>>
       THEN lines = <<NoRunsMessage>>
       ELSE /\ Len(lines) = Len(allRuns)
            /\ \A i \in 1..Len(allRuns) :
                 lines[i] = Ev("line", allRuns[i].databaseId, lines[i].x)

C9_Witness ==
  /\ Len(allRuns) = 2
  /\ allRuns[1].conclusion # allRuns[2].conclusion
  /\ Len(Rendered(out)) = 2

(* C10: no run, job or log query is issued unless the arguments and the     *)
(* dependencies are in order: a repository without a commit, a commit that  *)
(* is not 7 to 40 hexadecimal characters, gh missing or unauthenticated     *)
(* each end the process with exit code 1 before any query.                  *)
BadArguments ==
  \/ args.repo # "" /\ args.sha = <<>>
  \/ /\ args.sha # <<>>
     /\ \/ Len(args.sha) < 7
        \/ Len(args.sha) > 40
        \/ \E i \in 1..Len(args.sha) : args.sha[i] \notin HexChars
  \/ ~deps.gh
  \/ ~deps.auth

NameContains(name, part) == part = "" \/ (part = "ci" /\ name = "ci")

(* C11: with a workflow-name argument, a run is summarised, and its failure *)
(* logs are shown, only when its workflow's name contains the argument.     *)
C11_FilteredByWorkflow ==
  args.workflow # "" =>
     /\ \A i \in 1..Len(allRuns) :
          Has(out, Line(allRuns[i])) =>
             NameContains(allRuns[i].workflowName, args.workflow)
     /\ \A i \in 1..Len(failedRuns) :
          Has(out, Ev("h2", failedRuns[i].databaseId, "Failed run")) =>
             NameContains(failedRuns[i].workflowName, args.workflow)

(* C12: the warning "Could not fetch logs" is printed for a job exactly when *)
(* its log query failed; a log query that succeeds with the empty string    *)
(* prints the (empty) log and no warning.                                   *)
C12_WarningIffFetchFailed ==
  \A m \in 1..Len(queries) :
     queries[m].q = "log" =>
        /\ Has(out, Ev("warning", queries[m].id, "Could not fetch logs"))
              <=> ~queries[m].ok
        /\ queries[m].ok => Has(out, Ev("log", queries[m].id, queries[m].x))

(* C13, as stated: the display state is QUEUED for a queued run and         *)
(* RUNNING for an in_progress one, whatever the conclusion; the conclusion  *)
(* is mapped only for a completed run; every other pair gives UNKNOWN.      *)
C13_StatusTakesPrecedence ==
  pc = "formatted" =>
     LET run == allRuns[1]
     IN out[1].x =
          (IF run.status = "queued" THEN "QUEUED"
           ELSE IF run.status = "in_progress" THEN "RUNNING"
           ELSE IF run.status = "completed" /\ run.conclusion = "success"
             THEN "SUCCESS"
           ELSE IF run.status = "completed" /\ run.conclusion = "failure"
             THEN "FAILURE"
           ELSE IF run.status = "completed" /\ run.conclusion = "cancelled"
             THEN "CANCELLED"
           ELSE IF run.status = "completed" /\ run.conclusion = "skipped"
             THEN "SKIPPED"
           ELSE "UNKNOWN")

(* C13, amended: the display state is defined for every pair and is one of  *)
(* six, never QUEUED; it is RUNNING exactly for an in_progress run,         *)
(* whatever the conclusion; for every other status, queued included, it is  *)
(* the conclusion's state when the conclusion is success, failure,          *)
(* cancelled or skipped, and UNKNOWN otherwise.                             *)
C13_ConclusionUnlessInProgress ==
  pc = "formatted" =>
     LET run == allRuns[1]
         shown == out[1].x
     IN /\ Len(out) = 1 /\ out[1].t = "line"
        /\ shown \in {"RUNNING", "SUCCESS", "FAILURE", "CANCELLED", "SKIPPED",
                      "UNKNOWN"}
        /\ shown = "RUNNING" <=> run.status = "in_progress"
        /\ run.status # "in_progress" =>
             /\ shown = "SUCCESS" <=> run.conclusion = "success"
             /\ shown = "FAILURE" <=> run.conclusion = "failure"
             /\ shown = "CANCELLED" <=> run.conclusion = "cancelled"
             /\ shown = "SKIPPED" <=> run.conclusion = "skipped"

\* a queued run that carries a conclusion is shown by its conclusion
C13_Witness ==
  /\ pc = "formatted"
  /\ allRuns[1].status = "queued" /\ allRuns[1].conclusion = "success"
  /\ out[1].x = "SUCCESS"

(* C14: without a repository argument, main goes on only with a repository  *)
(* it has detected, from gh or else from the git remote, and exits with 1   *)
(* when both fail: no run is queried for an empty repository.               *)
C14_RepositoryDetected ==
  /\ queried => repo # ""
  /\ (args.repo = "" /\ pc \notin {"start", "exited"}) => repo = "owner/repo"

\* a failed run whose jobs query returned no job: it is warned about, none
\* of its jobs has a log query or a delimiter, and the runs after it are
\* processed too
NoJobsHandled ==
  /\ \A k \in 1..Len(queries) :
       (queries[k].q = "jobs" /\ queries[k].n = 0) =>
          /\ Has(out, Ev("warning", queries[k].id, "No failed jobs found"))
          /\ \A j \in 1..MaxJobs :
               /\ \A m \in 1..Len(queries) :
                    ~(queries[m].q = "log" /\ queries[m].id = JobId(queries[k].id, j))
               /\ ~Has(out, Ev("fence", JobId(queries[k].id, j), ""))
  /\ pc = "exited" =>
       \A r \in 1..Len(failedRuns) :
          \E k \in 1..Len(queries) :
             queries[k].q = "jobs" /\ queries[k].id = failedRuns[r].databaseId

(* C15: a failed run without failed jobs is warned about and skipped, with  *)
(* no log query and no delimited block, the next failed run is processed,   *)
(* and the process still exits with 64.                                     *)
C15_NoFailedJobsStillFails ==
  /\ NoJobsHandled
  /\ (pc = "exited" /\ \E k \in 1..Len(queries) :
                          queries[k].q = "jobs" /\ queries[k].n = 0) =>
        exitCode = 64

IsJobsQuery(q) == q.q = "jobs"

ConclusionIsFailure(run) == run.conclusion = "failure"

(* C16: the failed-jobs queries are those of the runs of the last snapshot  *)
(* whose conclusion is failure, one each, in snapshot order; a log query    *)
(* is for a job that the latest failed-jobs query returned, the jobs being  *)
(* taken in order; and a run's log queries are all done when the next       *)
(* run's failed-jobs query is issued.                                       *)
C16_QueriesLazySequential ==
  LET jq == SelectSeq(queries, IsJobsQuery)
  IN /\ failedRuns = SelectSeq(fetched.runs, ConclusionIsFailure)
     /\ Len(jq) <= Len(failedRuns)
     /\ \A r \in 1..Len(jq) : jq[r].id = failedRuns[r].databaseId
     /\ pc = "exited" => Len(jq) = Len(failedRuns)
     /\ queries # <<>> => queries[1].q = "jobs"
     /\ \A m \in 2..Len(queries) :
          LET k == CHOOSE i \in 1..(m - 1) :
                     /\ queries[i].q = "jobs"
                     /\ \A l \in (i + 1)..(m - 1) : queries[l].q = "log"
          IN IF queries[m].q = "log"
             THEN /\ m - k <= queries[k].n
                  /\ queries[m].id = JobId(queries[k].id, m - k)
             ELSE m - k - 1 = queries[k].n

\* two failed runs, two jobs each: jobs, log, log, jobs, log, log
C16_Witness ==
  /\ pc = "exited"
  /\ Len(queries) = 6
  /\ queries[1].q = "jobs" /\ queries[4].q = "jobs"
  /\ queries[4].id = 2 /\ queries[6].id = JobId(2, 2)

(* C17, as stated: when the failed runs have been processed, the last thing *)
(* printed before the exit is a report of the number of failed runs         *)
(* against the number of runs queried.                                      *)
C17_AggregateReport ==
  (pc = "exited" /\ failedRuns # <<>>) =>
     out[Len(out)] = Ev("report", Len(failedRuns), Len(allRuns))

IsRunFooter(e) == e.t = "warning" /\ e.x = "Workflow run failed"

HadJobs(q) == q.q = "jobs" /\ q.n > 0

(* C17, amended: nothing is printed after the section of the last failed    *)
(* run: the last output before the exit is that run's own closing warning,  *)
(* "Workflow run failed" when it had failed jobs and "No failed jobs found" *)
(* when it had none; "Workflow run failed" is printed once per failed run   *)
(* that had failed jobs, and no count of runs is printed anywhere.          *)
C17_LastOutputIsPerRun ==
  /\ \A i \in 1..Len(out) :
       out[i].t \in {"h1", "line", "success", "h2", "h3", "fence", "log", "warning"}
  /\ (pc = "exited" /\ failedRuns # <<>>) =>
        LET last == out[Len(out)]
            run == failedRuns[Len(failedRuns)]
            asked == queries[CHOOSE k \in 1..Len(queries) :
                               /\ queries[k].q = "jobs"
                               /\ queries[k].id = run.databaseId]
        IN /\ last = (IF asked.n > 0
                      THEN Ev("warning", run.databaseId, "Workflow run failed")
                      ELSE Ev("warning", run.databaseId, "No failed jobs found"))
           /\ Len(SelectSeq(out, IsRunFooter)) = Len(SelectSeq(queries, HadJobs))

\* two failed runs, the last one with a job whose log was printed
C17_Witness ==
  /\ pc = "exited" /\ Len(failedRuns) = 2
  /\ out[Len(out)] = Ev("warning", 2, "Workflow run failed")
  /\ Has(out, Ev("log", JobId(2, 1), "log text"))

(* C18: the summary and the failure processing use one snapshot, the answer *)
(* of main's own query: the summary is that answer's, the runs processed    *)
(* are its runs with conclusion failure, in order, and every run that gets  *)
(* a "Failed run" section has a FAILURE line in the summary.                *)
C18_SameSnapshot ==
  LET summary == Rendered(out)
  IN /\ fetched.none => failedRuns = <<>> /\ summary = <<>>
     /\ ~fetched.none =>
          /\ allRuns = fetched.runs
          /\ allRuns # <<>> => summary = [i \in 1..Len(allRuns) |-> Line(allRuns[i])]
          /\ failedRuns = SelectSeq(allRuns, ConclusionIsFailure)
          /\ \A r \in 1..Len(failedRuns) :
               Has(summary, Ev("line", failedRuns[r].databaseId, "FAILURE"))
     /\ \A i \in 1..Len(out) :
          out[i].t = "h2" =>
             /\ Has(Rendered(SubSeq(out, 1, i)), Ev("line", out[i].id, "FAILURE"))
             /\ \E r \in 1..Len(failedRuns) : failedRuns[r].databaseId = out[i].id

\* the loop waited to the ceiling on snapshots with a running run; the last
\* snapshot has none, and its second run has failed
C18_Witness ==
  /\ pc = "exited" /\ Warned(out)
  /\ allRuns = <<Run(1, "completed", "success"), Run(2, "completed", "failure")>>
  /\ Has(out, Ev("h2", 2, "Failed run"))
  /\ ~Has(out, Ev("h2", 1, "Failed run"))

(* C19: in the poll loop, elapsed is a multiple of INTERVAL between 0 and   *)
(* TIMEOUT; the loop issues at most TIMEOUT / INTERVAL run queries; it has  *)
(* slept once per query when it ends at the ceiling, and once less when it  *)
(* ends on a snapshot without a running run.                                *)
C19_CounterInvariant ==
  pc \in {"poll", "pollEnd", "pollRet"} =>
     /\ elapsed \in 0..TIMEOUT
     /\ elapsed % INTERVAL = 0
     /\ polls <= TIMEOUT \div INTERVAL
     /\ TIMEOUT \div INTERVAL = 120
     /\ pc = "poll" => sleeps = polls
     /\ LoopOver =>
          IF polled.none
          THEN sleeps = polls /\ elapsed = TIMEOUT
          ELSE sleeps = polls - 1 /\ elapsed < TIMEOUT

\* the loop ends on the last query it can issue, without a running run
C19_Witness ==
  /\ pc = "pollEnd" /\ ~polled.none
  /\ polls = TIMEOUT \div INTERVAL /\ sleeps = polls - 1
  /\ elapsed = TIMEOUT - INTERVAL

IsFence(e) == e.t = "fence"

IsJobHeader(e) == e.t = "h3"

(* C20: the delimiters are balanced: a job's header is followed by an       *)
(* opening delimiter, the job's log or its "Could not fetch logs" warning,  *)
(* and a closing delimiter, before anything else is printed; a delimiter    *)
(* is printed nowhere else, so a run without failed jobs has none.          *)
C20_DelimitersBalanced ==
  /\ \A i \in 1..Len(out) :
       /\ out[i].t = "h3" =>
            /\ i + 3 <= Len(out)
            /\ out[i + 1] = Ev("fence", out[i].id, "")
            /\ \/ out[i + 2] = Ev("log", out[i].id, out[i + 2].x)
               \/ out[i + 2] = Ev("warning", out[i].id, "Could not fetch logs")
            /\ out[i + 3] = Ev("fence", out[i].id, "")
            /\ i + 4 <= Len(out) => out[i + 4].t \in {"h3", "warning"}
       /\ out[i].t = "fence" =>
            \/ i > 1 /\ out[i - 1] = Ev("h3", out[i].id, "Failed Job")
            \/ i > 3 /\ out[i - 3] = Ev("h3", out[i].id, "Failed Job")
       /\ (out[i].t = "warning" /\ out[i].x = "No failed jobs found") =>
            /\ out[i - 1] = Ev("h2", out[i].id, "Failed run")
            /\ i + 1 <= Len(out) => out[i + 1].t = "h2"
  /\ Len(SelectSeq(out, IsFence)) = 2 * Len(SelectSeq(out, IsJobHeader))

\* a block around a warning, and then a run without failed jobs
C20_Witness ==
  /\ pc = "exited"
  /\ Has(out, Ev("warning", JobId(1, 1), "Could not fetch logs"))
  /\ Has(out, Ev("log", JobId(1, 2), "log text"))
  /\ out[Len(out)] = Ev("warning", 2, "No failed jobs found")

====
